---- MODULE Spec2Model ----
(***************************************************************************)
(* Model of the triage middleware of adaptive_honeypot                     *)
(* (client/middleware/express-honeypot.js): one asynchronous handler run   *)
(* per inbound request: prefilter, oracle call under a deadline,           *)
(* enforcement of the oracle's verdict.                                    *)
(*                                                                         *)
(* Strings are sequences of one-character strings, so that toLowerCase,    *)
(* includes, startsWith, replace and concatenation are computed as the     *)
(* code computes them.  JavaScript values are tagged records [t, s, n].    *)
(***************************************************************************)
EXTENDS Integers, Sequences, FiniteSets, TLC

(***************************************************************************)
(* Bounds                                                                  *)
(***************************************************************************)
\* number of requests that may be in flight together
NumReq == 2

Procs == 1..NumReq

(***************************************************************************)
(* Characters and strings                                                  *)
(***************************************************************************)
UpperChars == <<"A","B","C","D","E","F","G","H","I","J","K","L","M",
                "N","O","P","Q","R","S","T","U","V","W","X","Y","Z">>
LowerChars == <<"a","b","c","d","e","f","g","h","i","j","k","l","m",
                "n","o","p","q","r","s","t","u","v","w","x","y","z">>

LowerChar(c) ==
    IF \E i \in 1..26 : UpperChars[i] = c
    THEN LowerChars[CHOOSE i \in 1..26 : UpperChars[i] = c]
    ELSE c

UpperChar(c) ==
    IF \E i \in 1..26 : LowerChars[i] = c
    THEN UpperChars[CHOOSE i \in 1..26 : LowerChars[i] = c]
    ELSE c

\* String.prototype.toLowerCase
toLowerCase(s) == [i \in 1..Len(s) |-> LowerChar(s[i])]

\* String.prototype.includes
includes(s, t) ==
    \E i \in 0..(Len(s) - Len(t)) : SubSeq(s, i + 1, i + Len(t)) = t

\* String.prototype.startsWith
startsWith(s, t) == Len(s) >= Len(t) /\ SubSeq(s, 1, Len(t)) = t

\* the words of the two token patterns
W_select == <<"s","e","l","e","c","t">>
W_union  == <<"u","n","i","o","n">>
W_insert == <<"i","n","s","e","r","t">>
W_update == <<"u","p","d","a","t","e">>
W_delete == <<"d","e","l","e","t","e">>
W_drop   == <<"d","r","o","p">>
W_sql    == <<"s","q","l">>

\* /insert|update|delete|drop|sql/i  (line 44)
BodyPattern == {W_insert, W_update, W_delete, W_drop, W_sql}

\* /select|union|insert|update|delete|drop|sql/i  (line 46)
ValuePattern == {W_select, W_union, W_insert, W_update, W_delete, W_drop, W_sql}

\* RegExp.prototype.test for an alternation of literal words with the i flag
\* and no g flag: no lastIndex is kept between calls
testI(words, s) == \E w \in words : includes(toLowerCase(s), w)

\* the flags of the two pattern literals
PatternFlags == {"i"}

\* the index at which the leftmost match found from index `from` on ends,
\* or -1 when there is none
matchEnd(words, s, from) ==
    LET low  == toLowerCase(s)
        at(i) == {w \in words : i + Len(w) <= Len(s) /\ SubSeq(low, i + 1, i + Len(w)) = w}
        hits == {i \in from..Len(s) : at(i) # {}}
    IN  IF hits = {} THEN -1
        ELSE LET i == CHOOSE h \in hits : \A k \in hits : h <= k
             IN  i + Len(CHOOSE w \in at(i) : TRUE)

\* RegExp.prototype.test on a pattern object whose lastIndex is li: a global
\* pattern searches from li, any other from the start
testFrom(words, flags, li, s) ==
    matchEnd(words, s, IF "g" \in flags THEN li ELSE 0) # -1

\* the lastIndex the test leaves on the pattern object: only a global
\* pattern writes it, the end of the match or 0 after a failed search
lastIndexAfter(words, flags, li, s) ==
    IF "g" \notin flags THEN li
    ELSE IF matchEnd(words, s, li) = -1 THEN 0
    ELSE matchEnd(words, s, li)

(***************************************************************************)
(* JavaScript values                                                       *)
(***************************************************************************)
Undef      == [t |-> "undef", s |-> <<>>, n |-> 0]
StrV(str)  == [t |-> "str",   s |-> str,  n |-> 0]
NumV(num)  == [t |-> "num",   s |-> <<>>, n |-> num]
TrueV      == [t |-> "true",  s |-> <<>>, n |-> 0]
ObjV(id)   == [t |-> "obj",   s |-> <<>>, n |-> id]

\* ToBoolean
Truthy(v) ==
    CASE v.t = "undef" -> FALSE
      [] v.t = "str"   -> v.s # <<>>
      [] v.t = "num"   -> v.n # 0
      [] v.t = "true"  -> TRUE
      [] v.t = "obj"   -> TRUE

\* a || b
Or(a, b) == IF Truthy(a) THEN a ELSE b


(***************************************************************************)
(* Requests                                                                *)
(*   method, url (req.originalUrl || req.url), body (what the body         *)
(*   parsers left in req.body), rawBody, ip, xff (x-forwarded-for header)  *)
(*   A body is [t, s, e]: t = "undef" | "str" | "obj", s the string,       *)
(*   e the object's entries, a sequence of [k, v] with v a value.          *)
(***************************************************************************)
NoBody       == [t |-> "undef", s |-> <<>>, e |-> <<>>]
StrBody(str) == [t |-> "str",   s |-> str,  e |-> <<>>]
ObjBody(ent) == [t |-> "obj",   s |-> <<>>, e |-> ent]

Quote == "\""
Backslash == "\\"

RECURSIVE EscapeJSON(_)
\* the escaping JSON.stringify applies inside a string literal
EscapeJSON(s) ==
    IF s = <<>> THEN <<>>
    ELSE (IF Head(s) = Quote \/ Head(s) = Backslash
          THEN <<Backslash, Head(s)>> ELSE <<Head(s)>>) \o EscapeJSON(Tail(s))

QuoteJSON(s) == <<Quote>> \o EscapeJSON(s) \o <<Quote>>

\* JSON.stringify of a value: a string or a number (n kept as its digits in s)
ValueJSON(v) == IF v.t = "str" THEN QuoteJSON(v.s) ELSE v.s

RECURSIVE EntriesJSON(_)
EntriesJSON(ent) ==
    IF ent = <<>> THEN <<>>
    ELSE QuoteJSON(Head(ent).k) \o <<":">> \o ValueJSON(Head(ent).v)
         \o (IF Tail(ent) = <<>> THEN <<>> ELSE <<",">> \o EntriesJSON(Tail(ent)))

\* JSON.stringify(req.body) for an object body
JSONstringify(ent) == <<"{">> \o EntriesJSON(ent) \o <<"}">>

\* guessBodyString(req)
guessBodyString(rq) ==
    IF rq.body.t = "str" /\ rq.body.s # <<>> THEN rq.body.s
    ELSE IF rq.body.t = "obj" THEN JSONstringify(rq.body.e)
    ELSE IF Truthy(rq.rawBody) THEN rq.rawBody.s
    ELSE <<>>

\* "unknown"  (line 22)
Unknown == <<"u","n","k","n","o","w","n">>

\* buildPayload without the last fallback: src_ip is req.ip or the header
buildPayload_noFallback(rq) ==
    [src_ip  |-> Or(rq.ip, rq.xff),
     payload |-> IF rq.method = "GET" THEN rq.url ELSE guessBodyString(rq)]

\* buildPayload(req)
buildPayload(rq) ==
    [src_ip  |-> Or(rq.ip, Or(rq.xff, StrV(Unknown))),
     payload |-> IF rq.method = "GET" THEN rq.url ELSE guessBodyString(rq)]

\* Object.values(req.body).some(v => typeof v === 'string' && /.../i.test(v))
someValueMatches(rq) ==
    rq.body.t = "obj" /\
    \E i \in 1..Len(rq.body.e) :
        rq.body.e[i].v.t = "str" /\ testI(ValuePattern, rq.body.e[i].v.s)

\* suspect with a truncated alternative ("in" for "insert") tested on the URL
suspect_truncated(rq) ==
    LET raw       == guessBodyString(rq)
        urlLower  == toLowerCase(rq.url)
        bodyLower == toLowerCase(raw)
    IN  \/ includes(urlLower, W_select)
        \/ includes(urlLower, W_union)
        \/ includes(urlLower, <<"i","n">>)
        \/ includes(bodyLower, W_select)
        \/ includes(bodyLower, W_union)
        \/ testI(BodyPattern, bodyLower)
        \/ someValueMatches(rq)

\* the constant `suspect` of the handler (lines 32-46)
suspect(rq) ==
    LET raw       == guessBodyString(rq)
        urlLower  == toLowerCase(rq.url)
        bodyLower == toLowerCase(raw)
    IN  \/ includes(urlLower, W_select)
        \/ includes(urlLower, W_union)
        \/ includes(bodyLower, W_select)
        \/ includes(bodyLower, W_union)
        \/ testI(BodyPattern, bodyLower)
        \/ someValueMatches(rq)

(***************************************************************************)
(* Oracle responses                                                        *)
(*   resp.data is [t, top, action_result, has]:                            *)
(*     t = "empty"  a falsy body (empty string, null)                      *)
(*     t = "text"   a body axios could not parse as JSON, left a string    *)
(*     t = "json"   an object; `top` holds the descriptor fields found at  *)
(*                  the top level, `action_result` the nested object when  *)
(*                  `has` is TRUE                                          *)
(*   A descriptor is a record of the fields the handler reads.             *)
(***************************************************************************)
EmptyDesc ==
    [action |-> Undef, action_type |-> Undef, url |-> Undef, fake |-> Undef,
     fake_payload |-> Undef, delay_ms |-> Undef, status |-> Undef,
     message |-> Undef]

EmptyData   == [t |-> "empty", top |-> EmptyDesc, action_result |-> EmptyDesc, has |-> FALSE]
TextData    == [t |-> "text",  top |-> EmptyDesc, action_result |-> EmptyDesc, has |-> FALSE]
Nested(d)   == [t |-> "json",  top |-> EmptyDesc, action_result |-> d, has |-> TRUE]
TopLevel(d) == [t |-> "json",  top |-> d, action_result |-> EmptyDesc, has |-> FALSE]

\* !resp.data  (line 68)
noData(js) == js.t = "empty"

\* const ar = js.action_result || {}  (line 76)
actionResult(js) == IF js.t = "json" /\ js.has THEN js.action_result ELSE EmptyDesc

S_normal            == <<"n","o","r","m","a","l">>
S_allow             == <<"a","l","l","o","w">>
S_redirect          == <<"r","e","d","i","r","e","c","t">>
S_redirect_honeypot == <<"r","e","d","i","r","e","c","t","_","h","o","n","e","y","p","o","t">>
S_fake_data         == <<"f","a","k","e","_","d","a","t","a">>
S_tarpit            == <<"t","a","r","p","i","t">>
S_tarpit_slowdown   == <<"t","a","r","p","i","t","_","s","l","o","w","d","o","w","n">>
S_delay             == <<"d","e","l","a","y">>

\* (ar.action || ar.action_type || "normal").toString()  (line 77)
actionOf(ar) == Or(ar.action, Or(ar.action_type, StrV(S_normal))).s

\* process.env.HONEYPOT_BASE || "http://127.0.0.1:5000"  (line 83)
DefaultBase == <<"h","t","t","p",":","/","/","1","2","7",".","0",".","0",".","1",":","5","0","0","0">>
honeypotBase(envBase) == Or(envBase, StrV(DefaultBase)).s

\* "/honeypot/fakedb"  (line 80)
DefaultTarget == <<"/","h","o","n","e","y","p","o","t","/","f","a","k","e","d","b">>

\* the base used as it is
stripTrailingSlash_kept(s) == s

\* s.replace(/\/$/, "")  (line 85)
stripTrailingSlash(s) ==
    IF s # <<>> /\ s[Len(s)] = "/" THEN SubSeq(s, 1, Len(s) - 1) ELSE s

\* the resolved redirect target (lines 80-86)
resolveRedirect(ar, envBase) ==
    LET url == Or(ar.url, StrV(DefaultTarget))
    IN  IF url.t = "str" /\ startsWith(url.s, <<"/">>)
        THEN StrV(stripTrailingSlash(honeypotBase(envBase)) \o url.s)
        ELSE url

\* { fake: "simulated data" }  (line 95)
Placeholder == ObjV(0)
\* "Slow down"  (line 102)
SlowDown == <<"S","l","o","w"," ","d","o","w","n">>

\* parseInt(ar.delay_ms || 1000, 10)  (line 99); values here are integers
tarpitDelay(ar) == Or(ar.delay_ms, NumV(1000)).n

\* setTimeout's duration: a delay below 1 ms is run as 1 ms
timerDuration(d) == IF d < 1 THEN 1 ELSE d

\* the branch the handler takes on a response with data (lines 79-109)
branchOf(ar) ==
    LET action == actionOf(ar)
    IN  IF action = S_redirect_honeypot \/ action = S_redirect THEN "redirect"
        ELSE IF action = S_fake_data \/ Truthy(ar.fake) THEN "fake"
        ELSE IF action = S_tarpit \/ action = S_tarpit_slowdown \/ action = S_delay
             THEN "tarpit"
        ELSE "next"

\* writeHead accepts a status code of 100..999 and throws a RangeError on
\* any other, before anything is written
validStatus(code) == code.t = "num" /\ code.n >= 100 /\ code.n <= 999

\* the responses the handler synthesizes: [kind, status, body]
Redirect(loc)       == [kind |-> "redirect", status |-> NumV(302), body |-> loc]
Json(code, payload) == [kind |-> "json", status |-> code, body |-> payload]
Send(code, text)    == [kind |-> "send", status |-> code, body |-> text]

\* res.redirect(url)  (line 90)
redirectResponse(ar, envBase) == Redirect(resolveRedirect(ar, envBase))
\* res.status(200).json(ar.fake_payload || { fake: "simulated data" })  (line 95)
fakeResponse(ar) == Json(NumV(200), Or(ar.fake_payload, Placeholder))
\* res.status(ar.status || 200).send(ar.message || "Slow down")  (line 102)
tarpitResponse(ar) == Send(Or(ar.status, NumV(200)), Or(ar.message, StrV(SlowDown)))

(***************************************************************************)
(* Configuration                                                           *)
(***************************************************************************)
\* parseInt(process.env.HONEYPOT_TIMEOUT_MS || "2000", 10)
HONEYPOT_TIMEOUT_MS == 2000

(***************************************************************************)
(* State                                                                   *)
(*   One handler run per request r.  pc[r] is the position of the run:     *)
(*     "idle"      the request has not arrived                             *)
(*     "awaiting"  suspended at `await axios.post(...)` (line 58)          *)
(*     "tarpit"    suspended at `await new Promise(setTimeout)` (line 101) *)
(*     "done"      the handler has returned                                *)
(***************************************************************************)
VARIABLES
    env,      \* process.env: [HONEYPOT_BASE]
    pc,
    req,      \* the request of each run
    cls,      \* "none", or the value of `suspect`: "suspect" | "benign"
    calls,    \* number of axios.post calls issued for the request
    posted,   \* the payload posted to the oracle
    oracle,   \* how the await of the post ended: [kind, data]
    nexts,    \* number of next() calls
    out,      \* the responses the handler sent, in order
    due,      \* duration of the pending timer (axios timeout, tarpit timer)
    elapsed,  \* time since the pending timer was started
    nextArgs, \* the argument of each next(...) call, in order
    thrown,   \* the exceptions raised in the run: [error, caught]
    lastIndex, \* lastIndex of the pattern object of line 44 after its latest test
    late,     \* a response to the post arrived after the deadline had rejected it
    inbound   \* the request as it entered the middleware

vars == <<env, pc, req, cls, calls, posted, oracle, nexts, out, due, elapsed,
          nextArgs, thrown, lastIndex, late, inbound>>

NoReq == [method |-> "", url |-> <<>>, body |-> NoBody, rawBody |-> Undef,
          ip |-> Undef, xff |-> Undef]
NoPost == [src_ip |-> Undef, payload |-> <<>>]
NoOracle == [kind |-> "none", data |-> EmptyData]

\* the exceptions of a run: err.code === 'ECONNABORTED' (line 60), any other
\* rejection of the post (line 62), the RangeError of writeHead (line 102)
E_timeout == "ECONNABORTED"
E_axios == "axios error"
E_range == "RangeError"
\* an exception and the catch block that handled it: "inner" is the catch of
\* the post (line 59), "outer" the catch of the whole handler (line 105)
Caught(e, by) == [error |-> e, caught |-> by]

InitRuns ==
    /\ pc = [r \in Procs |-> "idle"]
    /\ req = [r \in Procs |-> NoReq]
    /\ cls = [r \in Procs |-> "none"]
    /\ calls = [r \in Procs |-> 0]
    /\ posted = [r \in Procs |-> NoPost]
    /\ oracle = [r \in Procs |-> NoOracle]
    /\ nexts = [r \in Procs |-> 0]
    /\ out = [r \in Procs |-> <<>>]
    /\ due = [r \in Procs |-> 0]
    /\ elapsed = [r \in Procs |-> 0]
    /\ nextArgs = [r \in Procs |-> <<>>]
    /\ thrown = [r \in Procs |-> <<>>]
    /\ lastIndex = 0
    /\ late = [r \in Procs |-> FALSE]
    /\ inbound = [r \in Procs |-> NoReq]

\* Handle with the body pattern hoisted out of the handler and given the g
\* flag: one pattern object serves every evaluation and keeps its lastIndex
Handle_hoistedPattern(r, rq) ==
    /\ pc[r] = "idle"
    /\ inbound' = [inbound EXCEPT ![r] = rq]
    /\ req' = [req EXCEPT ![r] = rq]
    /\ LET urlLower  == toLowerCase(rq.url)
           bodyLower == toLowerCase(guessBodyString(rq))
           sus == \/ includes(urlLower, W_select)
                  \/ includes(urlLower, W_union)
                  \/ includes(bodyLower, W_select)
                  \/ includes(bodyLower, W_union)
                  \/ testFrom(BodyPattern, {"g", "i"}, lastIndex, bodyLower)
                  \/ someValueMatches(rq)
       IN  /\ IF ~sus
              THEN /\ cls' = [cls EXCEPT ![r] = "benign"]
                   /\ nexts' = [nexts EXCEPT ![r] = @ + 1]
                   /\ nextArgs' = [nextArgs EXCEPT ![r] = Append(@, Undef)]
                   /\ pc' = [pc EXCEPT ![r] = "done"]
                   /\ UNCHANGED <<calls, posted, due, elapsed>>
              ELSE /\ cls' = [cls EXCEPT ![r] = "suspect"]
                   /\ posted' = [posted EXCEPT ![r] = buildPayload(rq)]
                   /\ calls' = [calls EXCEPT ![r] = @ + 1]
                   /\ due' = [due EXCEPT ![r] = HONEYPOT_TIMEOUT_MS]
                   /\ elapsed' = [elapsed EXCEPT ![r] = 0]
                   /\ pc' = [pc EXCEPT ![r] = "awaiting"]
                   /\ UNCHANGED <<nexts, nextArgs>>
           /\ lastIndex' = lastIndexAfter(BodyPattern, {"g", "i"}, lastIndex, bodyLower)
    /\ UNCHANGED <<env, oracle, out, thrown, late>>

\* Handle posting to the oracle before it classifies: a benign request is
\* posted too, and passed on without awaiting the answer
Handle_callFirst(r, rq) ==
    /\ pc[r] = "idle"
    /\ inbound' = [inbound EXCEPT ![r] = rq]
    /\ req' = [req EXCEPT ![r] = rq]
    /\ posted' = [posted EXCEPT ![r] = buildPayload(rq)]
    /\ calls' = [calls EXCEPT ![r] = @ + 1]
    /\ IF ~suspect(rq)
       THEN /\ cls' = [cls EXCEPT ![r] = "benign"]
            /\ nexts' = [nexts EXCEPT ![r] = @ + 1]
            /\ nextArgs' = [nextArgs EXCEPT ![r] = Append(@, Undef)]
            /\ pc' = [pc EXCEPT ![r] = "done"]
            /\ UNCHANGED <<due, elapsed>>
       ELSE /\ cls' = [cls EXCEPT ![r] = "suspect"]
            /\ due' = [due EXCEPT ![r] = HONEYPOT_TIMEOUT_MS]
            /\ elapsed' = [elapsed EXCEPT ![r] = 0]
            /\ pc' = [pc EXCEPT ![r] = "awaiting"]
            /\ UNCHANGED <<nexts, nextArgs>>
    /\ lastIndex' = lastIndexAfter(BodyPattern, PatternFlags, 0,
                                   toLowerCase(guessBodyString(rq)))
    /\ UNCHANGED <<env, oracle, out, thrown, late>>

\* Handle storing the serialized body back into req.body
Handle_rewritingBody(r, rq) ==
    /\ pc[r] = "idle"
    /\ inbound' = [inbound EXCEPT ![r] = rq]
    /\ req' = [req EXCEPT ![r] = [rq EXCEPT !.body = StrBody(guessBodyString(rq))]]
    /\ IF ~suspect(rq)
       THEN /\ cls' = [cls EXCEPT ![r] = "benign"]
            /\ nexts' = [nexts EXCEPT ![r] = @ + 1]
            /\ nextArgs' = [nextArgs EXCEPT ![r] = Append(@, Undef)]
            /\ pc' = [pc EXCEPT ![r] = "done"]
            /\ UNCHANGED <<calls, posted, due, elapsed>>
       ELSE /\ cls' = [cls EXCEPT ![r] = "suspect"]
            /\ posted' = [posted EXCEPT ![r] = buildPayload(rq)]
            /\ calls' = [calls EXCEPT ![r] = @ + 1]
            /\ due' = [due EXCEPT ![r] = HONEYPOT_TIMEOUT_MS]
            /\ elapsed' = [elapsed EXCEPT ![r] = 0]
            /\ pc' = [pc EXCEPT ![r] = "awaiting"]
            /\ UNCHANGED <<nexts, nextArgs>>
    /\ lastIndex' = lastIndexAfter(BodyPattern, PatternFlags, 0,
                                   toLowerCase(guessBodyString(rq)))
    /\ UNCHANGED <<env, oracle, out, thrown, late>>

\* Handle with a blocking tarpit: while another run sleeps in its delay the
\* event loop takes no new request
Handle_blocking(r, rq) ==
    /\ pc[r] = "idle"
    /\ \A q \in Procs \ {r} : pc[q] # "tarpit"
    /\ inbound' = [inbound EXCEPT ![r] = rq]
    /\ req' = [req EXCEPT ![r] = rq]
    /\ IF ~suspect(rq)
       THEN /\ cls' = [cls EXCEPT ![r] = "benign"]
            /\ nexts' = [nexts EXCEPT ![r] = @ + 1]
            /\ nextArgs' = [nextArgs EXCEPT ![r] = Append(@, Undef)]
            /\ pc' = [pc EXCEPT ![r] = "done"]
            /\ UNCHANGED <<calls, posted, due, elapsed>>
       ELSE /\ cls' = [cls EXCEPT ![r] = "suspect"]
            /\ posted' = [posted EXCEPT ![r] = buildPayload(rq)]
            /\ calls' = [calls EXCEPT ![r] = @ + 1]
            /\ due' = [due EXCEPT ![r] = HONEYPOT_TIMEOUT_MS]
            /\ elapsed' = [elapsed EXCEPT ![r] = 0]
            /\ pc' = [pc EXCEPT ![r] = "awaiting"]
            /\ UNCHANGED <<nexts, nextArgs>>
    /\ lastIndex' = lastIndexAfter(BodyPattern, PatternFlags, 0,
                                   toLowerCase(guessBodyString(rq)))
    /\ UNCHANGED <<env, oracle, out, thrown, late>>

\* the handler up to its first await (lines 29-58)
Handle(r, rq) ==
    /\ pc[r] = "idle"
    /\ inbound' = [inbound EXCEPT ![r] = rq]
    /\ req' = [req EXCEPT ![r] = rq]
    /\ IF ~suspect(rq)
       THEN \* if (!suspect) return next();
            /\ cls' = [cls EXCEPT ![r] = "benign"]
            /\ nexts' = [nexts EXCEPT ![r] = @ + 1]
            /\ nextArgs' = [nextArgs EXCEPT ![r] = Append(@, Undef)]
            /\ pc' = [pc EXCEPT ![r] = "done"]
            /\ UNCHANGED <<calls, posted, due, elapsed>>
       ELSE \* resp = await axios.post(HONEYPOT_URL, payload, { timeout })
            /\ cls' = [cls EXCEPT ![r] = "suspect"]
            /\ posted' = [posted EXCEPT ![r] = buildPayload(rq)]
            /\ calls' = [calls EXCEPT ![r] = @ + 1]
            /\ due' = [due EXCEPT ![r] = HONEYPOT_TIMEOUT_MS]
            /\ elapsed' = [elapsed EXCEPT ![r] = 0]
            /\ pc' = [pc EXCEPT ![r] = "awaiting"]
            /\ UNCHANGED <<nexts, nextArgs>>
    /\ lastIndex' = lastIndexAfter(BodyPattern, PatternFlags, 0,
                                   toLowerCase(guessBodyString(rq)))
    /\ UNCHANGED <<env, oracle, out, thrown, late>>

\* OracleTimeout answering the client itself (504) in place of next()
OracleTimeout_failClosed(r) ==
    /\ pc[r] = "awaiting"
    /\ elapsed[r] = due[r]
    /\ oracle' = [oracle EXCEPT ![r] = [kind |-> "timeout", data |-> EmptyData]]
    /\ out' = [out EXCEPT ![r] = Append(@, [kind |-> "send", status |-> NumV(504), body |-> Undef])]
    /\ thrown' = [thrown EXCEPT ![r] = Append(@, Caught(E_timeout, "inner"))]
    /\ pc' = [pc EXCEPT ![r] = "done"]
    /\ UNCHANGED <<env, lastIndex, late, inbound, req, cls, calls, posted, nexts, due, elapsed, nextArgs>>

\* OracleTimeout of a post without the timeout option: at the deadline the
\* wait goes on
OracleTimeout_rearmed(r) ==
    /\ pc[r] = "awaiting"
    /\ elapsed[r] = due[r]
    /\ elapsed' = [elapsed EXCEPT ![r] = 0]
    /\ UNCHANGED <<env, lastIndex, late, inbound, req, pc, cls, calls, posted, oracle, nexts, out, due,
                   nextArgs, thrown>>

\* OracleTimeout handing the error to the chain: the catch block returns
\* next(err)
OracleTimeout_nextErr(r) ==
    /\ pc[r] = "awaiting"
    /\ elapsed[r] = due[r]
    /\ oracle' = [oracle EXCEPT ![r] = [kind |-> "timeout", data |-> EmptyData]]
    /\ thrown' = [thrown EXCEPT ![r] = Append(@, Caught(E_timeout, "inner"))]
    /\ nexts' = [nexts EXCEPT ![r] = @ + 1]
    /\ nextArgs' = [nextArgs EXCEPT ![r] = Append(@, TrueV)]
    /\ pc' = [pc EXCEPT ![r] = "done"]
    /\ UNCHANGED <<env, lastIndex, late, inbound, req, cls, calls, posted, out, due, elapsed>>

\* the post is rejected with ECONNABORTED when the timeout elapses; the catch
\* block logs and returns next() (lines 59-65)
OracleTimeout(r) ==
    /\ pc[r] = "awaiting"
    /\ elapsed[r] = due[r]
    /\ oracle' = [oracle EXCEPT ![r] = [kind |-> "timeout", data |-> EmptyData]]
    /\ thrown' = [thrown EXCEPT ![r] = Append(@, Caught(E_timeout, "inner"))]
    /\ nexts' = [nexts EXCEPT ![r] = @ + 1]
    /\ nextArgs' = [nextArgs EXCEPT ![r] = Append(@, Undef)]
    /\ pc' = [pc EXCEPT ![r] = "done"]
    /\ UNCHANGED <<env, lastIndex, late, inbound, req, cls, calls, posted, out, due, elapsed>>

\* OracleError issuing the post again from the catch block, once
OracleError_retry(r) ==
    /\ pc[r] = "awaiting"
    /\ elapsed[r] < due[r]
    /\ IF calls[r] < 2
       THEN /\ calls' = [calls EXCEPT ![r] = @ + 1]
            /\ UNCHANGED <<oracle, nexts, nextArgs, pc>>
       ELSE /\ oracle' = [oracle EXCEPT ![r] = [kind |-> "error", data |-> EmptyData]]
            /\ nexts' = [nexts EXCEPT ![r] = @ + 1]
            /\ nextArgs' = [nextArgs EXCEPT ![r] = Append(@, Undef)]
            /\ pc' = [pc EXCEPT ![r] = "done"]
            /\ UNCHANGED calls
    /\ thrown' = [thrown EXCEPT ![r] = Append(@, Caught(E_axios, "inner"))]
    /\ due' = [due EXCEPT ![r] = IF calls[r] < 2 THEN @ ELSE 0]
    /\ elapsed' = [elapsed EXCEPT ![r] = 0]
    /\ UNCHANGED <<env, lastIndex, late, inbound, req, cls, posted, out>>

\* OracleError passing the error on: the catch block answers 502
OracleError_surfaced(r) ==
    /\ pc[r] = "awaiting"
    /\ elapsed[r] < due[r]
    /\ oracle' = [oracle EXCEPT ![r] = [kind |-> "error", data |-> EmptyData]]
    /\ out' = [out EXCEPT ![r] = Append(@, [kind |-> "send", status |-> NumV(502), body |-> Undef])]
    /\ thrown' = [thrown EXCEPT ![r] = Append(@, Caught(E_axios, "inner"))]
    /\ pc' = [pc EXCEPT ![r] = "done"]
    /\ due' = [due EXCEPT ![r] = 0]
    /\ elapsed' = [elapsed EXCEPT ![r] = 0]
    /\ UNCHANGED <<env, lastIndex, late, inbound, req, cls, calls, posted, nexts, nextArgs>>

\* the post is rejected with any other error (connection refused or reset,
\* an error status); the catch block logs and returns next() (lines 59-65)
OracleError(r) ==
    /\ pc[r] = "awaiting"
    /\ elapsed[r] < due[r]
    /\ oracle' = [oracle EXCEPT ![r] = [kind |-> "error", data |-> EmptyData]]
    /\ thrown' = [thrown EXCEPT ![r] = Append(@, Caught(E_axios, "inner"))]
    /\ nexts' = [nexts EXCEPT ![r] = @ + 1]
    /\ nextArgs' = [nextArgs EXCEPT ![r] = Append(@, Undef)]
    /\ pc' = [pc EXCEPT ![r] = "done"]
    /\ due' = [due EXCEPT ![r] = 0]
    /\ elapsed' = [elapsed EXCEPT ![r] = 0]
    /\ UNCHANGED <<env, lastIndex, late, inbound, req, cls, calls, posted, out>>

\* the post resolves with a response whose data is js; the handler runs on
\* to its return or to the tarpit's await (lines 68-101, 109)
OracleResponse(r, js) ==
    /\ pc[r] = "awaiting"
    /\ elapsed[r] < due[r]
    /\ oracle' = [oracle EXCEPT ![r] = [kind |-> "resp", data |-> js]]
    /\ LET ar == actionResult(js)
           branch == IF noData(js) THEN "next" ELSE branchOf(ar)
       IN  /\ nexts' = [nexts EXCEPT ![r] = IF branch = "next" THEN @ + 1 ELSE @]
           /\ nextArgs' = [nextArgs EXCEPT ![r] =
                             IF branch = "next" THEN Append(@, Undef) ELSE @]
           /\ out' = [out EXCEPT ![r] =
                        IF branch = "redirect"
                        THEN Append(@, redirectResponse(ar, env.HONEYPOT_BASE))
                        ELSE IF branch = "fake" THEN Append(@, fakeResponse(ar))
                        ELSE @]
           /\ pc' = [pc EXCEPT ![r] = IF branch = "tarpit" THEN "tarpit" ELSE "done"]
           /\ due' = [due EXCEPT ![r] =
                        IF branch = "tarpit" THEN timerDuration(tarpitDelay(ar)) ELSE 0]
           /\ elapsed' = [elapsed EXCEPT ![r] = 0]
    /\ UNCHANGED <<env, lastIndex, late, inbound, req, cls, calls, posted, thrown>>

\* TarpitExpires without the `return` before res.status(...).send(...): the
\* handler falls through to next() after sending
TarpitExpires_fallThrough(r) ==
    /\ pc[r] = "tarpit"
    /\ elapsed[r] = due[r]
    /\ LET resp == tarpitResponse(actionResult(oracle[r].data))
       IN  IF validStatus(resp.status)
           THEN out' = [out EXCEPT ![r] = Append(@, resp)] /\ UNCHANGED thrown
           ELSE /\ thrown' = [thrown EXCEPT ![r] = Append(@, Caught(E_range, "outer"))]
                /\ UNCHANGED out
    /\ nexts' = [nexts EXCEPT ![r] = @ + 1]
    /\ nextArgs' = [nextArgs EXCEPT ![r] = Append(@, Undef)]
    /\ pc' = [pc EXCEPT ![r] = "done"]
    /\ UNCHANGED <<env, lastIndex, late, inbound, req, cls, calls, posted, oracle, due, elapsed>>

\* TarpitExpires reading the verdict from a variable shared by all runs: the
\* response is built from another run's descriptor when one has arrived
TarpitExpires_sharedVerdict(r) ==
    /\ pc[r] = "tarpit"
    /\ elapsed[r] = due[r]
    /\ LET others == {q \in Procs \ {r} : oracle[q].kind = "resp"}
           src == IF others = {} THEN r ELSE CHOOSE q \in others : TRUE
           resp == tarpitResponse(actionResult(oracle[src].data))
       IN  IF validStatus(resp.status)
           THEN /\ out' = [out EXCEPT ![r] = Append(@, resp)]
                /\ UNCHANGED <<nexts, nextArgs, thrown>>
           ELSE /\ thrown' = [thrown EXCEPT ![r] = Append(@, Caught(E_range, "outer"))]
                /\ nexts' = [nexts EXCEPT ![r] = @ + 1]
                /\ nextArgs' = [nextArgs EXCEPT ![r] = Append(@, Undef)]
                /\ UNCHANGED out
    /\ pc' = [pc EXCEPT ![r] = "done"]
    /\ UNCHANGED <<env, lastIndex, late, inbound, req, cls, calls, posted, oracle, due, elapsed>>

\* TarpitExpires without the await of the timer: the response is sent while
\* the timer is still running
TarpitExpires_notAwaited(r) ==
    /\ pc[r] = "tarpit"
    /\ LET resp == tarpitResponse(actionResult(oracle[r].data))
       IN  IF validStatus(resp.status)
           THEN /\ out' = [out EXCEPT ![r] = Append(@, resp)]
                /\ UNCHANGED <<nexts, nextArgs, thrown>>
           ELSE /\ thrown' = [thrown EXCEPT ![r] = Append(@, Caught(E_range, "outer"))]
                /\ nexts' = [nexts EXCEPT ![r] = @ + 1]
                /\ nextArgs' = [nextArgs EXCEPT ![r] = Append(@, Undef)]
                /\ UNCHANGED out
    /\ pc' = [pc EXCEPT ![r] = "done"]
    /\ UNCHANGED <<env, lastIndex, late, inbound, req, cls, calls, posted, oracle, due, elapsed>>

\* the tarpit timer fires; res.status(...).send(...) either sends or throws
\* on a status code writeHead rejects, and then the outer catch logs and the
\* handler falls through to next() (lines 101-109)
TarpitExpires(r) ==
    /\ pc[r] = "tarpit"
    /\ elapsed[r] = due[r]
    /\ LET resp == tarpitResponse(actionResult(oracle[r].data))
       IN  IF validStatus(resp.status)
           THEN /\ out' = [out EXCEPT ![r] = Append(@, resp)]
                /\ UNCHANGED <<nexts, nextArgs, thrown>>
           ELSE /\ thrown' = [thrown EXCEPT ![r] = Append(@, Caught(E_range, "outer"))]
                /\ nexts' = [nexts EXCEPT ![r] = @ + 1]
                /\ nextArgs' = [nextArgs EXCEPT ![r] = Append(@, Undef)]
                /\ UNCHANGED out
    /\ pc' = [pc EXCEPT ![r] = "done"]
    /\ UNCHANGED <<env, lastIndex, late, inbound, req, cls, calls, posted, oracle, due, elapsed>>

\* LateResponse resuming the handler: the late response is enforced like
\* one that came in time
LateResponse_enforced(r, js) ==
    /\ pc[r] = "done"
    /\ oracle[r].kind = "timeout"
    /\ ~late[r]
    /\ late' = [late EXCEPT ![r] = TRUE]
    /\ LET ar == actionResult(js)
           branch == IF noData(js) THEN "next" ELSE branchOf(ar)
       IN  /\ nexts' = [nexts EXCEPT ![r] = IF branch = "next" THEN @ + 1 ELSE @]
           /\ nextArgs' = [nextArgs EXCEPT ![r] =
                             IF branch = "next" THEN Append(@, Undef) ELSE @]
           /\ out' = [out EXCEPT ![r] =
                        IF branch = "redirect"
                        THEN Append(@, redirectResponse(ar, env.HONEYPOT_BASE))
                        ELSE IF branch = "fake" THEN Append(@, fakeResponse(ar))
                        ELSE IF branch = "tarpit" THEN Append(@, tarpitResponse(ar))
                        ELSE @]
    /\ UNCHANGED <<env, lastIndex, inbound, req, pc, cls, calls, posted, oracle, due,
                   elapsed, thrown>>

\* the oracle answers after the deadline: the promise of the post was
\* rejected at the deadline and the handler has returned (lines 58-65), so
\* the answer settles nothing and no code of the handler runs
LateResponse(r, js) ==
    /\ pc[r] = "done"
    /\ oracle[r].kind = "timeout"
    /\ ~late[r]
    /\ late' = [late EXCEPT ![r] = TRUE]
    /\ UNCHANGED <<env, lastIndex, inbound, req, pc, cls, calls, posted, oracle, nexts,
                   out, due, elapsed, nextArgs, thrown>>

\* the runs suspended on a timer
Pending == {r \in Procs : pc[r] \in {"awaiting", "tarpit"}}

\* time passes, up to the expiry of the nearest pending timer
Advance ==
    /\ Pending # {}
    /\ \A r \in Pending : elapsed[r] < due[r]
    /\ LET dt == CHOOSE d \in {due[r] - elapsed[r] : r \in Pending} :
                     \A r \in Pending : d <= due[r] - elapsed[r]
       IN  elapsed' = [r \in Procs |->
                         IF r \in Pending THEN elapsed[r] + dt ELSE elapsed[r]]
    /\ UNCHANGED <<env, lastIndex, late, inbound, pc, req, cls, calls, posted, oracle, nexts, out, due,
                   nextArgs, thrown>>

(***************************************************************************)
(* Inputs                                                                  *)
(***************************************************************************)
\* letter cases of a word: as written, upper case, alternating case
Cases == {"lower", "upper", "mixed"}
InCase(w, c) ==
    CASE c = "lower" -> w
      [] c = "upper" -> [i \in 1..Len(w) |-> UpperChar(w[i])]
      [] c = "mixed" -> [i \in 1..Len(w) |-> IF i % 2 = 1 THEN UpperChar(w[i]) ELSE w[i]]

Tokens == ValuePattern
TokenTexts == {InCase(w, c) : w \in Tokens, c \in Cases}

U_login == <<"/","l","o","g","i","n">>
U_query == <<"/","q","?","x","=">>
T_hi    == <<"h","i"," ","b","o","b">>
K_q     == <<"q">>
K_id    == <<"i","d">>
D_7     == <<"7">>
IP_1    == <<"1","0",".","0",".","0",".","9">>
IP_2    == <<"1","0",".","0",".","0",".","2">>

BodyNum(digits) == [t |-> "num", s |-> digits, n |-> 0]
Entry(key, val) == [k |-> key, v |-> val]

Request(m, u, b, raw) ==
    [method |-> m, url |-> u, body |-> b, rawBody |-> raw, ip |-> StrV(IP_1), xff |-> Undef]

\* the requests of the prefilter sweep: every token in every letter case in
\* the URL, in a string body, in a string value, in a key, in a second
\* entry, in rawBody, and none at all; under GET and POST
SweepUrls == {U_login} \cup {U_query \o t \o <<"&","y">> : t \in TokenTexts}
SweepBodies ==
    {NoBody, ObjBody(<<>>), StrBody(T_hi), StrBody(<<>>),
     ObjBody(<<Entry(K_id, BodyNum(D_7))>>), ObjBody(<<Entry(K_q, StrV(T_hi))>>)}
    \cup {StrBody(T_hi \o <<" ">> \o t) : t \in TokenTexts}
    \cup {ObjBody(<<Entry(K_q, StrV(t \o <<"!">>))>>) : t \in TokenTexts}
    \cup {ObjBody(<<Entry(t, BodyNum(D_7))>>) : t \in TokenTexts}
    \cup {ObjBody(<<Entry(K_id, BodyNum(D_7)), Entry(K_q, StrV(t))>>) : t \in TokenTexts}
\* a suspect URL under the other methods, the body as express.json leaves it
\* or carrying an entry
MethodRequests ==
    {Request(m, U_query \o W_select, b, Undef) :
        m \in {"HEAD", "OPTIONS", "PUT", "DELETE"},
        b \in {ObjBody(<<>>), ObjBody(<<Entry(K_q, StrV(T_hi))>>)}}
\* a suspect request with and without a connection address and a
\* forwarded-for header
AddressRequests ==
    {[Request(m, U_query \o W_select, ObjBody(<<Entry(K_q, StrV(T_hi))>>), Undef)
        EXCEPT !.ip = a, !.xff = x] :
        m \in {"GET", "POST"},
        a \in {Undef, StrV(<<>>), StrV(IP_1)}, x \in {Undef, StrV(<<>>), StrV(IP_2)}}
SweepRequests ==
    {Request(m, u, b, Undef) : m \in {"GET", "POST"}, u \in SweepUrls, b \in SweepBodies}
    \cup {Request("POST", U_login, NoBody, StrV(t)) : t \in TokenTexts}
    \cup MethodRequests
    \cup AddressRequests

\* a benign GET, a GET with a token in its URL, a POST with a token in a value
BenignGet   == Request("GET", U_login, ObjBody(<<>>), Undef)
SuspectGet  == Request("GET", U_query \o W_select, ObjBody(<<>>), Undef)
SuspectPost == Request("POST", U_login, ObjBody(<<Entry(K_q, StrV(InCase(W_drop, "upper")))>>), Undef)
SampleRequests == {BenignGet, SuspectGet, SuspectPost}
\* a request only the body pattern of line 44 flags: the token is a key
KeyPost == Request("POST", U_login, ObjBody(<<Entry(W_drop, BodyNum(D_7))>>), Undef)
ClassifyRequests == {BenignGet, SuspectGet, KeyPost}

M_wait   == <<"w","a","i","t">>
S_block  == <<"b","l","o","c","k">>
T_abs    == <<"h","t","t","p",":","/","/","d","/","x">>
T_rel    == <<"/","t","r","a","p">>
T_bare   == <<"t","r","a","p">>
B_plain  == <<"h","t","t","p",":","/","/","h",":","5","0","0","0">>
B_slash  == B_plain \o <<"/">>

WithAction(a) == [EmptyDesc EXCEPT !.action = StrV(a)]

\* the responses of the concurrent specification
SampleData ==
    {EmptyData, TextData,
     Nested(WithAction(S_allow)),
     Nested(WithAction(S_redirect)),
     Nested(WithAction(S_fake_data)),
     Nested([WithAction(S_tarpit) EXCEPT !.delay_ms = NumV(50)]),
     Nested([WithAction(S_delay) EXCEPT !.status = NumV(99)])}

\* the responses of the prefilter sweep
PrefilterData ==
    {Nested(WithAction(S_allow)),
     Nested([WithAction(S_tarpit) EXCEPT !.delay_ms = NumV(50)])}

\* the descriptors of the enforcement sweep: every action tag (none, the
\* eight of the contract, an unknown one, the empty string) with every
\* combination of the fields each branch reads
SweepActions ==
    {Undef, StrV(<<>>), StrV(S_block)} \cup
    {StrV(a) : a \in {S_normal, S_allow, S_redirect, S_redirect_honeypot,
                      S_fake_data, S_tarpit, S_tarpit_slowdown, S_delay}}
SweepTargets ==
    {Undef, StrV(<<>>), StrV(T_rel), StrV(T_abs), StrV(T_bare),
     StrV(<<"/">> \o T_rel), StrV(DefaultTarget), NumV(7)}
SweepDescs ==
    {[EmptyDesc EXCEPT !.action = a, !.action_type = at, !.url = u, !.fake = f] :
        a \in SweepActions, at \in {Undef, StrV(S_redirect)},
        u \in SweepTargets, f \in {Undef, TrueV}}
    \cup
    {[EmptyDesc EXCEPT !.action = a, !.action_type = at, !.fake = f, !.fake_payload = fp] :
        a \in SweepActions, at \in {Undef, StrV(S_fake_data)},
        f \in {Undef, TrueV}, fp \in {Undef, ObjV(1)}}
    \cup
    {[EmptyDesc EXCEPT !.action = a, !.fake = f, !.delay_ms = d, !.status = st, !.message = m] :
        a \in SweepActions, f \in {Undef, TrueV}, d \in {Undef, NumV(0), NumV(50)},
        st \in {Undef, NumV(429), NumV(99)}, m \in {Undef, StrV(M_wait)}}
    \cup
    {[EmptyDesc EXCEPT !.action = a, !.fake = f, !.fake_payload = fp, !.status = st] :
        a \in SweepActions, f \in {Undef, TrueV, ObjV(2)}, fp \in {Undef, ObjV(1)},
        st \in {Undef, NumV(429)}}
SweepData ==
    {EmptyData, TextData}
    \cup {Nested(d) : d \in SweepDescs}
    \cup {TopLevel(d) : d \in SweepDescs}

\* the values of HONEYPOT_BASE in the environment: unset, empty, without and
\* with a trailing slash, with two
SweepBases == {Undef, StrV(<<>>), StrV(B_plain), StrV(B_slash), StrV(B_slash \o <<"/">>)}

Init == InitRuns /\ env = [HONEYPOT_BASE |-> Undef]

Next ==
    \/ \E r \in Procs :
         \/ \E rq \in SampleRequests : Handle(r, rq)
         \/ OracleTimeout(r)
         \/ OracleError(r)
         \/ \E js \in SampleData : OracleResponse(r, js)
         \/ TarpitExpires(r)
         \/ \E js \in SampleData : LateResponse(r, js)
    \/ Advance

Spec == Init /\ [][Next]_vars

\* one request at a time, over the whole prefilter sweep
NextPrefilter ==
    \/ \E rq \in SweepRequests : Handle(1, rq)
    \/ OracleTimeout(1)
    \/ OracleError(1)
    \/ \E js \in PrefilterData : OracleResponse(1, js)
    \/ TarpitExpires(1)
    \/ Advance

SpecPrefilter == Init /\ [][NextPrefilter]_vars

\* one request at a time, over the whole enforcement sweep and every base
InitEnforce == InitRuns /\ \E b \in SweepBases : env = [HONEYPOT_BASE |-> b]

NextEnforce ==
    \/ \E rq \in {BenignGet, SuspectPost} : Handle(1, rq)
    \/ OracleTimeout(1)
    \/ OracleError(1)
    \/ \E js \in SweepData : OracleResponse(1, js)
    \/ TarpitExpires(1)
    \/ Advance

SpecEnforce == InitEnforce /\ [][NextEnforce]_vars

\* the handler under concurrent requests that repeat one another
NextClassify ==
    \/ \E r \in Procs :
         \/ \E rq \in ClassifyRequests : Handle(r, rq)
         \/ OracleTimeout(r)
         \/ OracleError(r)
         \/ \E js \in PrefilterData : OracleResponse(r, js)
         \/ TarpitExpires(r)
    \/ Advance

SpecClassify == Init /\ [][NextClassify]_vars

\* the handler under a runtime whose timers fire: time passes while a timer
\* is pending, and the callback of an expired timer runs.  Nothing obliges
\* the oracle to answer.
Fairness ==
    /\ WF_vars(Advance)
    /\ \A r \in Procs : WF_vars(OracleTimeout(r)) /\ WF_vars(TarpitExpires(r))

SpecLive == Init /\ [][Next]_vars /\ Fairness
(***************************************************************************)
(* Properties                                                              *)
(***************************************************************************)
Arrived(r) == pc[r] # "idle"
Done(r) == pc[r] = "done"
\* the terminal outcome is Passthrough: next() once, nothing sent
Passthrough(r) == Done(r) /\ nexts[r] = 1 /\ out[r] = <<>>
\* the terminal outcome is one synthesized response
Responded(r) == Done(r) /\ nexts[r] = 0 /\ Len(out[r]) = 1
\* the descriptor the handler read from the response it got
GotData(r) == oracle[r].kind = "resp"

\* C1: every handler run ends in exactly one terminal outcome, next() once
\* or one synthesized response, never both and never neither; and nothing
\* is called or sent before the run ends.
C1_ExactlyOneOutcome ==
    \A r \in Procs :
        /\ Done(r) => (Passthrough(r) \/ Responded(r))
        /\ ~Done(r) => (nexts[r] = 0 /\ out[r] = <<>>)

\* a tarpit whose send threw (status 99) and fell through to next()
C1_Witness ==
    \E r \in Procs :
        /\ Done(r) /\ GotData(r)
        /\ branchOf(actionResult(oracle[r].data)) = "tarpit"
        /\ actionResult(oracle[r].data).status = NumV(99)
        /\ nexts[r] = 1

\* s holds word w from position i on, letter case ignored
HoldsAt(s, w, i) ==
    /\ i + Len(w) - 1 <= Len(s)
    /\ \A j \in 1..Len(w) : LowerChar(s[i + j - 1]) = w[j]
ContainsWord(s, w) == \E i \in 1..Len(s) : HoldsAt(s, w, i)
ContainsToken(s) == \E w \in Tokens : ContainsWord(s, w)

\* C2 as stated: a request whose URL and normalized payload (the URL under
\* GET, the body string otherwise) hold none of the tokens is classified
\* benign, no oracle call is issued for it, and it is passed through.
C2_Original ==
    \A r \in Procs :
        (/\ Arrived(r)
         /\ ~ContainsToken(req[r].url)
         /\ ~ContainsToken(buildPayload(req[r]).payload))
        => /\ cls[r] = "benign"
           /\ calls[r] = 0
           /\ Passthrough(r)

\* C2, amended: a request whose URL and body string, as the prefilter reads
\* it under any method, hold none of the tokens is classified benign, no
\* oracle call is issued for it, and it is passed through.
C2_CleanPassesThrough ==
    \A r \in Procs :
        (/\ Arrived(r)
         /\ ~ContainsToken(req[r].url)
         /\ ~ContainsToken(guessBodyString(req[r])))
        => /\ cls[r] = "benign"
           /\ calls[r] = 0
           /\ oracle[r].kind = "none"
           /\ Passthrough(r)

\* a POST with a structured body whose string value holds no token
C2_Witness ==
    \E r \in Procs :
        /\ Done(r) /\ req[r].method = "POST"
        /\ req[r].body = ObjBody(<<Entry(K_q, StrV(T_hi))>>)
        /\ ~ContainsToken(req[r].url)
        /\ ~ContainsToken(guessBodyString(req[r]))
        /\ calls[r] = 0

\* a string-typed value of a structured body holds word w
ValueContains(rq, w) ==
    rq.body.t = "obj" /\
    \E i \in 1..Len(rq.body.e) :
        rq.body.e[i].v.t = "str" /\ ContainsWord(rq.body.e[i].v.s, w)

\* C3: a request holding any of the seven tokens, in any letter case, in its
\* URL, in its normalized payload or in a string value of its structured
\* body, is classified suspect.
C3_EveryTokenEverywhere ==
    \A r \in Procs : \A w \in Tokens :
        (Arrived(r) /\ (\/ ContainsWord(req[r].url, w)
                        \/ ContainsWord(buildPayload(req[r]).payload, w)
                        \/ ValueContains(req[r], w)))
        => cls[r] = "suspect"

\* C4: while a suspect request awaits the oracle the deadline is never
\* passed; a run that reaches the deadline without a response leaves the
\* await only into Passthrough, in that step, at the deadline.
C4_AtDeadline(r) ==
    (pc[r] = "awaiting" /\ elapsed[r] = HONEYPOT_TIMEOUT_MS /\ pc'[r] # pc[r])
    => /\ pc'[r] = "done" /\ nexts'[r] = 1 /\ out'[r] = <<>>
       /\ oracle'[r].kind = "timeout" /\ elapsed'[r] = HONEYPOT_TIMEOUT_MS
C4_State ==
    \A r \in Procs :
        /\ pc[r] = "awaiting" => elapsed[r] <= HONEYPOT_TIMEOUT_MS
        /\ oracle[r].kind = "timeout"
           => (Passthrough(r) /\ elapsed[r] = HONEYPOT_TIMEOUT_MS)
\* C4: the two parts together, in every state and every step
C4_TimeoutPassesThrough ==
    [](C4_State) /\ [][\A r \in Procs : C4_AtDeadline(r)]_vars

\* a run released by the timeout
C4_Witness ==
    \E r \in Procs :
        oracle[r].kind = "timeout" /\ Done(r) /\ elapsed[r] = HONEYPOT_TIMEOUT_MS

\* C5: a transport error, and a body that cannot be parsed into a decision
\* (not JSON, or empty), end in Passthrough: next() once, nothing sent.
C5_FailuresAbsorbed ==
    \A r \in Procs :
        (\/ oracle[r].kind = "error"
         \/ (GotData(r) /\ oracle[r].data.t \in {"text", "empty"}))
        => Passthrough(r)

\* one run ended by a transport error and one by an unparsable body
C5_Witness ==
    \E r, q \in Procs :
        /\ oracle[r].kind = "error" /\ Done(r)
        /\ oracle[q].kind = "resp" /\ oracle[q].data.t = "text" /\ Done(q)

\* C6: at most one oracle call is issued per request, whatever its outcome.
C6_AtMostOneCall == \A r \in Procs : calls[r] <= 1

\* runs ended by a timeout and by a transport error, each after one call
C6_Witness ==
    \E r, q \in Procs :
        /\ oracle[r].kind = "timeout" /\ Done(r) /\ calls[r] = 1
        /\ oracle[q].kind = "error" /\ Done(q) /\ calls[q] = 1
\* the action tags of the contract
ValidActions ==
    {S_normal, S_allow, S_redirect, S_redirect_honeypot, S_fake_data,
     S_tarpit, S_tarpit_slowdown, S_delay}

\* the descriptor a response carries, nested or at the top level
Carried(js) == IF js.has THEN js.action_result ELSE js.top

\* the response is malformed: no data, or no `action` field, or an `action`
\* that is none of the tags of the contract
Malformed(js) ==
    \/ js.t # "json"
    \/ Carried(js).action.t # "str"
    \/ Carried(js).action.s \notin ValidActions

\* C7: a malformed response (no data, `action` missing or unknown) ends in
\* Passthrough with nothing synthesized, whatever other fields it carries.
C7_MalformedPassesThrough ==
    \A r \in Procs :
        (Done(r) /\ GotData(r) /\ Malformed(oracle[r].data))
        => Passthrough(r)

\* the terminal outcome of a finished run: "next", or the kind, status and
\* body of the response it sent
Outcome(r) ==
    IF out[r] = <<>> THEN [kind |-> "next", status |-> Undef, body |-> Undef]
    ELSE out[r][1]

\* the terminal outcome the handler gives a descriptor nested under
\* action_result
NestedOutcome(d, envBase) ==
    LET b == branchOf(d)
    IN  IF b = "redirect" THEN redirectResponse(d, envBase)
        ELSE IF b = "fake" THEN fakeResponse(d)
        ELSE IF b = "tarpit" /\ validStatus(tarpitResponse(d).status)
             THEN tarpitResponse(d)
        ELSE [kind |-> "next", status |-> Undef, body |-> Undef]

\* C8: a descriptor at the top level of the response is enforced as the
\* same descriptor nested under action_result is.
C8_TopLevelAsNested ==
    \A r \in Procs :
        (Done(r) /\ GotData(r) /\ oracle[r].data.t = "json" /\ ~oracle[r].data.has)
        => Outcome(r) = NestedOutcome(oracle[r].data.top, env.HONEYPOT_BASE)

\* C9: a response whose action is `normal` or `allow` ends in Passthrough:
\* next() once, nothing synthesized.
C9_AllowPassesThrough ==
    \A r \in Procs :
        (/\ Done(r) /\ GotData(r) /\ oracle[r].data.t = "json" /\ oracle[r].data.has
         /\ oracle[r].data.action_result.action \in {StrV(S_normal), StrV(S_allow)})
        => Passthrough(r)

\* the base URL in force: HONEYPOT_BASE when set and not empty
BaseInForce == IF env.HONEYPOT_BASE.t = "str" /\ env.HONEYPOT_BASE.s # <<>>
               THEN env.HONEYPOT_BASE.s ELSE DefaultBase

\* loc is base, less its trailing slash if it has one, followed by target
JoinedAt(loc, base, target) ==
    LET k == Len(loc) - Len(target)
    IN  /\ k >= 0
        /\ \A i \in 1..Len(target) : loc[k + i] = target[i]
        /\ IF base # <<>> /\ base[Len(base)] = "/"
           THEN k = Len(base) - 1 /\ \A i \in 1..k : loc[i] = base[i]
           ELSE k = Len(base) /\ \A i \in 1..k : loc[i] = base[i]

H5000_fakedb ==
    <<"h","t","t","p",":","/","/","h",":","5","0","0","0",
      "/","h","o","n","e","y","p","o","t","/","f","a","k","e","d","b">>

\* C10: the location of a redirect is, for a target beginning with "/", the
\* base less its trailing slash followed by the target, so a base with and
\* without the trailing slash give the same URL (base "http://h:5000/" and
\* target "/honeypot/fakedb": "http://h:5000/honeypot/fakedb"); any other
\* target is the location unchanged.
C10_RedirectResolution ==
    \A r \in Procs :
        (/\ Done(r) /\ GotData(r) /\ out[r] # <<>> /\ out[r][1].kind = "redirect"
         /\ Truthy(actionResult(oracle[r].data).url))
        => LET target == actionResult(oracle[r].data).url
               loc    == out[r][1].body
           IN  IF target.t = "str" /\ target.s[1] = "/"
               THEN /\ loc.t = "str"
                    /\ JoinedAt(loc.s, BaseInForce, target.s)
                    /\ BaseInForce \in {B_plain, B_slash} => loc.s = B_plain \o target.s
                    /\ (BaseInForce = B_slash /\ target.s = DefaultTarget)
                       => loc.s = H5000_fakedb
               ELSE loc = target

\* the redirect of the example: base "http://h:5000/", target "/honeypot/fakedb"
C10_Witness ==
    \E r \in Procs :
        /\ Done(r) /\ out[r] # <<>> /\ out[r][1].kind = "redirect"
        /\ env.HONEYPOT_BASE = StrV(B_slash)
        /\ actionResult(oracle[r].data).url = StrV(DefaultTarget)
        /\ out[r][1].body = StrV(H5000_fakedb)
\* the run got a fake-data verdict: a nested descriptor tagged fake_data
FakeVerdict(r) ==
    /\ Done(r) /\ GotData(r) /\ oracle[r].data.t = "json" /\ oracle[r].data.has
    /\ oracle[r].data.action_result.action = StrV(S_fake_data)

\* the synthetic body a descriptor supplies: fake_payload, else an object
\* in fake (fake: true is a flag and no body)
SuppliedBody(d) ==
    IF d.fake_payload # Undef THEN d.fake_payload
    ELSE IF d.fake.t = "obj" THEN d.fake
    ELSE Undef

\* C11: a fake-data verdict is answered with the body the oracle supplied,
\* in fake or in fake_payload, and with the placeholder only when the
\* oracle supplied none.
C11_FakeBodyVerbatim ==
    \A r \in Procs :
        FakeVerdict(r)
        => LET d == oracle[r].data.action_result
           IN  /\ Responded(r) /\ out[r][1].kind = "json"
               /\ SuppliedBody(d) # Undef => out[r][1].body = SuppliedBody(d)
               /\ out[r][1].body = Placeholder => SuppliedBody(d) = Undef

\* C12: a fake-data verdict is answered with the status the oracle gave,
\* and with 200 only when it gave none.
C12_FakeStatus ==
    \A r \in Procs :
        FakeVerdict(r)
        => LET d == oracle[r].data.action_result
           IN  /\ Responded(r) /\ out[r][1].kind = "json"
               /\ out[r][1].status = (IF d.status # Undef THEN d.status ELSE NumV(200))
\* the run got a verdict that took the tarpit branch
TarpitVerdict(r) ==
    /\ GotData(r) /\ ~noData(oracle[r].data)
    /\ branchOf(actionResult(oracle[r].data)) = "tarpit"

\* from the verdict on, the timer of the run is the tarpit timer; the run
\* has no outcome while it waits, and it is done only with the timer expired
C13_State ==
    \A r \in Procs :
        TarpitVerdict(r)
        => LET ar == actionResult(oracle[r].data)
           IN  /\ due[r] = timerDuration(tarpitDelay(ar))
               /\ elapsed[r] <= due[r]
               /\ pc[r] \in {"tarpit", "done"}
               /\ pc[r] = "tarpit" => nexts[r] = 0 /\ out[r] = <<>>
               /\ pc[r] = "done" =>
                     /\ elapsed[r] = due[r]
                     /\ ar.delay_ms.t = "num" => elapsed[r] >= ar.delay_ms.n

\* a step that ends the tarpit wait or produces an outcome of the run is
\* taken with the timer expired
C13_AtExpiry(r) ==
    pc[r] = "tarpit" /\ (pc'[r] # "tarpit" \/ out'[r] # out[r] \/ nexts'[r] # nexts[r])
    => elapsed[r] = due[r]

\* C13: the response to a tarpit verdict, and any other terminal outcome of
\* that request, is produced only when the delay timer started at verdict
\* receipt has fired, never between the verdict and the expiry.
C13_TarpitNotBeforeExpiry ==
    [](C13_State) /\ [][\A r \in Procs : C13_AtExpiry(r)]_vars

\* a run tarpitted for 50 ms has answered, 50 ms after the verdict
C13_Witness ==
    \E r \in Procs :
        /\ Done(r) /\ TarpitVerdict(r) /\ Responded(r)
        /\ actionResult(oracle[r].data).delay_ms = NumV(50)
        /\ elapsed[r] = 50
\* a pending timer of the run has expired and its callback can run
CanFire(r) ==
    /\ r \in Pending /\ elapsed[r] = due[r]
    /\ ENABLED (OracleTimeout(r) \/ TarpitExpires(r))

\* every step of run r that its own position allows can be taken now
CanProceed(r) ==
    /\ pc[r] = "idle" => \A rq \in {BenignGet, SuspectGet} : ENABLED Handle(r, rq)
    /\ pc[r] = "awaiting" /\ elapsed[r] < due[r] =>
          /\ ENABLED OracleError(r)
          /\ \A js \in SampleData : ENABLED OracleResponse(r, js)
    /\ r \in Pending /\ elapsed[r] = due[r] => CanFire(r)
    /\ r \in Pending /\ elapsed[r] < due[r] =>
          ENABLED Advance \/ \E p \in Pending : CanFire(p)

\* C14: while a request is suspended, awaiting the oracle or inside its
\* tarpit delay, every other request can be classified, call the oracle and
\* reach its outcome; its steps wait on no other request's call or timer.
C14_NoRequestWaitsOnAnother ==
    \A q \in Pending : \A r \in Procs \ {q} : CanProceed(r)

\* a run arrived, was tarpitted for 50 ms and has answered while another
\* run is still inside a longer tarpit delay
C14_Witness ==
    \E q \in Procs : \E r \in Procs \ {q} :
        /\ pc[q] = "tarpit" /\ elapsed[q] = 50 /\ elapsed[q] < due[q]
        /\ Done(r) /\ TarpitVerdict(r) /\ Responded(r) /\ elapsed[r] = 50
\* the value a tarpit field takes: the oracle's when specified, else the default
Specified(v, default) == IF v # Undef THEN v ELSE default

\* C15: for a tarpit verdict each default is applied exactly when the
\* oracle left the field unspecified: the suspension lasts delay_ms whenever
\* one is specified, a delay of 0 included, and 1000 ms only when absent;
\* the status is the oracle's or 200; the body the oracle's message or the
\* slow-down string.
C15_TarpitDefaults ==
    \A r \in Procs :
        TarpitVerdict(r)
        => LET ar == actionResult(oracle[r].data)
               resp == Send(Specified(ar.status, NumV(200)),
                            Specified(ar.message, StrV(SlowDown)))
           IN  /\ due[r] = timerDuration(Specified(ar.delay_ms, NumV(1000)).n)
               /\ Done(r) /\ validStatus(resp.status) => out[r] = <<resp>>

\* the redirect target of a descriptor cannot be resolved: url is missing or
\* is not a string
Unresolvable(ar) == ar.url.t # "str"

\* C16: a redirect verdict whose target cannot be resolved degrades to
\* Passthrough: next() is called and no redirect response is sent.
C16_UnresolvedRedirectPassesThrough ==
    \A r \in Procs :
        /\ Done(r) /\ GotData(r) /\ ~noData(oracle[r].data)
        /\ actionResult(oracle[r].data).action \in {StrV(S_redirect), StrV(S_redirect_honeypot)}
        /\ Unresolvable(actionResult(oracle[r].data))
        => Passthrough(r)
\* an internal failure happened in the run: the post was rejected, or an
\* exception was raised while the verdict was enforced
Failed(r) == oracle[r].kind \in {"timeout", "error"} \/ thrown[r] # <<>>

C18_State ==
    /\ lastIndex = 0
    /\ \A r \in Procs :
          Arrived(r) => (cls[r] = "suspect" <=> suspect(req[r]))
    /\ \A r \in Procs : \A q \in Procs :
          Arrived(r) /\ Arrived(q) /\ req[r] = req[q] => cls[r] = cls[q]

\* classifying a request changes no pattern state and no other request's class
C18_NoSideEffect(r) ==
    pc[r] = "idle" /\ pc'[r] # "idle"
    => /\ lastIndex' = lastIndex
       /\ \A q \in Procs \ {r} : cls'[q] = cls[q] /\ req'[q] = req[q]

\* C18: classification is deterministic and free of side effects: however
\* often and in whatever order requests are classified, a request snapshot
\* gets the same suspect/benign result, and no state is carried between
\* evaluations of the token patterns.
C18_ClassificationDeterministic ==
    [](C18_State) /\ [][\A r \in Procs : C18_NoSideEffect(r)]_vars

\* the same request, flagged by the body pattern alone, was classified
\* twice and found suspect both times
C18_Witness ==
    \E r \in Procs : \E q \in Procs \ {r} :
        /\ req[r] = KeyPost /\ req[q] = KeyPost
        /\ cls[r] = "suspect" /\ cls[q] = "suspect"
\* what each position of a run implies: the oracle is called only for a
\* request classified suspect, and a verdict is enforced (a response sent,
\* a tarpit entered) only after a response of the oracle was received
C19_State ==
    \A r \in Procs :
        /\ pc[r] = "idle" => cls[r] = "none" /\ calls[r] = 0
        /\ calls[r] > 0 => cls[r] = "suspect"
        /\ cls[r] = "benign" => Passthrough(r) /\ oracle[r].kind = "none"
        /\ pc[r] = "awaiting" =>
              /\ cls[r] = "suspect" /\ calls[r] = 1 /\ oracle[r].kind = "none"
              /\ nexts[r] = 0 /\ out[r] = <<>>
        /\ pc[r] = "tarpit" \/ out[r] # <<>> => cls[r] = "suspect" /\ GotData(r)
        /\ oracle[r].kind \in {"timeout", "error"} => Passthrough(r)

\* the transitions of one run
C19_Step(r) ==
    /\ pc[r] = "idle" =>
          \/ pc'[r] = "idle"
          \/ pc'[r] = "done" /\ cls'[r] = "benign"
          \/ pc'[r] = "awaiting" /\ cls'[r] = "suspect"
    /\ pc[r] = "awaiting" =>
          \/ pc'[r] = "awaiting" /\ oracle'[r] = oracle[r]
          \/ pc'[r] \in {"done", "tarpit"} /\ oracle'[r].kind = "resp"
          \/ pc'[r] = "done" /\ oracle'[r].kind \in {"timeout", "error"}
    /\ pc[r] = "tarpit" => pc'[r] \in {"tarpit", "done"} /\ oracle'[r] = oracle[r]
    /\ pc[r] = "done" =>
          /\ pc'[r] = "done" /\ cls'[r] = cls[r] /\ calls'[r] = calls[r]
          /\ oracle'[r] = oracle[r] /\ nexts'[r] = nexts[r] /\ out'[r] = out[r]

\* C19: a request follows only the transitions Idle -> Classified; benign ->
\* Passthrough; suspect -> AwaitingVerdict -> VerdictReceived -> ActionApplied
\* or Timeout/Error -> Passthrough: the oracle is called only after the
\* request was classified suspect, an action is applied only after a verdict
\* was received, and no transition leaves a terminal state.
C19_RequestStateMachine ==
    [](C19_State) /\ [][\A r \in Procs : C19_Step(r)]_vars

\* one run went through classification, the call, the verdict and the
\* tarpit to its response; another was classified benign and passed through
C19_Witness ==
    \E r \in Procs : \E q \in Procs :
        /\ cls[r] = "suspect" /\ TarpitVerdict(r) /\ Responded(r)
        /\ cls[q] = "benign" /\ Passthrough(q)
\* C20: every request eventually reaches a terminal outcome when timers
\* and callbacks are scheduled fairly: a suspect request whose oracle never
\* answers is released by the deadline, a tarpitted request completes once
\* its delay has elapsed, and no request stays awaiting or in the tarpit
\* forever.
C20_EveryRequestTerminates ==
    \A r \in Procs : Arrived(r) ~> Done(r)

\* one run was released by the deadline, the oracle not having answered,
\* and another completed its tarpit
C20_Witness ==
    \E r \in Procs : \E q \in Procs :
        /\ Done(r) /\ oracle[r].kind = "timeout" /\ elapsed[r] = HONEYPOT_TIMEOUT_MS
        /\ Done(q) /\ TarpitVerdict(q) /\ elapsed[q] = due[q]
\* a step in which a late response arrives for the run changes nothing of it
C21_Discarded(r) ==
    late'[r] # late[r]
    => /\ pc'[r] = pc[r] /\ nexts'[r] = nexts[r] /\ out'[r] = out[r]
       /\ calls'[r] = calls[r] /\ posted'[r] = posted[r] /\ oracle'[r] = oracle[r]

\* a run a late response arrived for stays passed through, on one call
C21_State ==
    \A r \in Procs :
        late[r] => Passthrough(r) /\ calls[r] = 1 /\ oracle[r].kind = "timeout"

\* C21: an oracle response arriving after its request timed out and was
\* passed through is discarded: no enforcement action, no second terminal
\* outcome and no new oracle call for that request.
C21_LateResponseDiscarded ==
    [](C21_State) /\ [][\A r \in Procs : C21_Discarded(r)]_vars

\* a late response arrived for a run released by the deadline
C21_Witness ==
    \E r \in Procs : late[r] /\ Passthrough(r) /\ elapsed[r] = HONEYPOT_TIMEOUT_MS
\* the terminal outcome a request's own snapshot, its own oracle outcome and
\* the configuration determine
OwnOutcome(rq, orc, envBase) ==
    IF ~suspect(rq) \/ orc.kind # "resp" \/ noData(orc.data)
    THEN [kind |-> "next", status |-> Undef, body |-> Undef]
    ELSE NestedOutcome(actionResult(orc.data), envBase)

\* what a step can change of one run, the passing of time left aside
OwnState(r) ==
    <<pc[r], req[r], cls[r], calls[r], posted[r], oracle[r], nexts[r], out[r],
      due[r], late[r]>>

\* class, oracle request, timer and outcome of every run follow from the
\* run's own request and oracle outcome; runs with equal requests and equal
\* oracle outcomes end alike
C22_State ==
    /\ \A r \in Procs :
          /\ Arrived(r) => (cls[r] = "suspect" <=> suspect(req[r]))
          /\ calls[r] > 0 => posted[r] = buildPayload(req[r])
          /\ pc[r] = "awaiting" => due[r] = HONEYPOT_TIMEOUT_MS
          /\ pc[r] = "tarpit" =>
                due[r] = timerDuration(tarpitDelay(actionResult(oracle[r].data)))
          /\ Done(r) =>
                /\ Outcome(r) = OwnOutcome(req[r], oracle[r], env.HONEYPOT_BASE)
                /\ nexts[r] = (IF out[r] = <<>> THEN 1 ELSE 0)
    /\ \A r \in Procs : \A q \in Procs :
          Done(r) /\ Done(q) /\ req[r] = req[q] /\ oracle[r] = oracle[q]
          => cls[r] = cls[q] /\ posted[r] = posted[q] /\ out[r] = out[q]
             /\ nexts[r] = nexts[q]

\* no step changes two runs
C22_Frame ==
    \A r \in Procs : \A q \in Procs \ {r} :
        OwnState(r)' = OwnState(r) \/ OwnState(q)' = OwnState(q)

\* C22: concurrent requests are independent: in every interleaving each
\* request's classification, oracle request and terminal outcome are a
\* function of its own snapshot, its own oracle outcome and the static
\* configuration only, never of another request's content, verdict or
\* timing.
C22_RequestsIndependent ==
    [](C22_State) /\ [][C22_Frame]_vars

\* two different requests with different verdicts both ended, one tarpitted
\* for 50 ms and answered, the other answered with fake data
C22_Witness ==
    \E r \in Procs : \E q \in Procs :
        /\ req[r] # req[q]
        /\ TarpitVerdict(r) /\ Responded(r) /\ elapsed[r] = 50
        /\ GotData(q) /\ Responded(q) /\ out[q][1].kind = "json"
\* the methods that only read
ReadOnly == {"GET", "HEAD", "OPTIONS"}

\* C23: the normalized payload posted to the oracle is the raw request URL
\* for every read-only method (GET, HEAD, OPTIONS) and the serialized
\* request body for every other method.
C23_NormalizedPayload ==
    \A r \in Procs :
        calls[r] > 0
        => posted[r].payload = (IF req[r].method \in ReadOnly
                                THEN req[r].url
                                ELSE guessBodyString(req[r]))
\* a string that is present and not empty
Given(v) == v.t = "str" /\ v.s # <<>>

\* C24: the request posted to the oracle carries exactly the two fields
\* src_ip and payload and nothing else of the inbound request; src_ip is the
\* connection address, else the forwarded-for header, else "unknown", and so
\* is never empty.
C24_MinimalOracleRequest ==
    \A r \in Procs :
        calls[r] > 0
        => /\ DOMAIN posted[r] = {"src_ip", "payload"}
           /\ posted[r].src_ip =
                 (IF Given(req[r].ip) THEN req[r].ip
                  ELSE IF Given(req[r].xff) THEN req[r].xff
                  ELSE StrV(Unknown))
           /\ Given(posted[r].src_ip)
           /\ posted[r].payload \in {req[r].url, guessBodyString(req[r])}

\* a request with an empty address and no header was posted as "unknown"
C24_Witness ==
    /\ calls[1] > 0
    /\ req[1].ip = StrV(<<>>) /\ req[1].xff = Undef
    /\ posted[1].src_ip = StrV(Unknown)
\* the request a passed-through run hands on is the one that entered
C25_State ==
    \A r \in Procs : Passthrough(r) => req[r] = inbound[r]

\* once a request has entered, no step of the handler writes to it
C25_Step(r) ==
    Arrived(r) => req'[r] = req[r] /\ inbound'[r] = inbound[r]

\* C25: triage leaves the inbound request unchanged: on every path that
\* ends in Passthrough (benign, allow, timeout, error, malformed verdict)
\* the method, URL, headers and body the downstream handler sees are those
\* that entered the middleware.
C25_RequestUnchanged ==
    [](C25_State) /\ [][\A r \in Procs : C25_Step(r)]_vars

\* a POST with a body was passed through on a malformed verdict, and
\* another request on the deadline
C25_Witness ==
    \E r \in Procs : \E q \in Procs :
        /\ Passthrough(r) /\ req[r] = SuspectPost
        /\ GotData(r) /\ noData(oracle[r].data)
        /\ Passthrough(q) /\ oracle[q].kind = "timeout"
\* the run was, or is being, enforced as a tarpit: its delay timer was
\* started and nothing but the tarpit's own response was sent
AsTarpit(r) ==
    /\ pc[r] \in {"tarpit", "done"} /\ due[r] > 0
    /\ \A i \in 1..Len(out[r]) : out[r][i].kind = "send"

\* the run was enforced as fake data: one JSON response and no next()
AsFakeData(r) == Responded(r) /\ out[r][1].kind = "json"

\* C26: the enforcement branch is selected by the action tag alone: a
\* response tagged tarpit, tarpit_slowdown or delay is always enforced as a
\* tarpit and one tagged fake_data always as fake data, whatever url, fake,
\* fake_payload or delay_ms it also carries.
C26_BranchByActionTag ==
    \A r \in Procs :
        GotData(r) /\ oracle[r].data.t = "json" /\ oracle[r].data.has
        => LET ar == oracle[r].data.action_result
           IN  /\ ar.action \in {StrV(S_tarpit), StrV(S_tarpit_slowdown), StrV(S_delay)}
                  => AsTarpit(r)
               /\ ar.action = StrV(S_fake_data) => AsFakeData(r)
====
